---- MODULE Spec2Model ----
(***************************************************************************)
(* A model of broadcastify_cli.py: the `download` command (login, mode     *)
(* dispatch, range validation and expansion, the per-date fetch pool, the  *)
(* optional concatenation and the deferred transcription).                 *)
(*                                                                         *)
(* Spec follows a whole run of the command.  SpecCombine follows one call  *)
(* of combine_mp3_files for a directory that may hold files of an earlier  *)
(* run, SpecFuse one call of transcribe_audio; both use the variables and  *)
(* the actions of Spec.                                                    *)
(*                                                                         *)
(* Date strings are sequences of character codes ('/' = 47, '0'..'9' =     *)
(* 48..57), so that the string comparisons of the code are string          *)
(* comparisons in the model.  Calendar dates are triples <<y, m, d>>.      *)
(***************************************************************************)
EXTENDS Integers, Sequences, FiniteSets, TLC

(***************************************************************************)
(* Bounds of the model.                                                    *)
(***************************************************************************)
\* longest listing the server returns for one date, and the id / name universe
MaxIds == 2
\* largest value of --jobs
MaxJobs == 2
\* largest value of --past-days
MaxPastDays == 2
\* a run is followed through this many calls of download_archive_by_date
MaxDates == 3
\* the input dates reach from this many days before today to tomorrow
WindowBack == 2

\* default of the `days` parameter of download_all_archives
AllDays == 365

(***************************************************************************)
(* Calendar arithmetic of datetime and timedelta: a date is converted to   *)
(* its proleptic Gregorian ordinal (day 1 is 0001-01-01) and back.         *)
(***************************************************************************)
\* date.toordinal()
toordinal(d) ==
    LET y   == IF d[2] <= 2 THEN d[1] - 1 ELSE d[1]
        era == y \div 400
        yoe == y - era * 400
        mp  == IF d[2] > 2 THEN d[2] - 3 ELSE d[2] + 9
        doy == (153 * mp + 2) \div 5 + d[3] - 1
        doe == yoe * 365 + yoe \div 4 - yoe \div 100 + doy
    IN  era * 146097 + doe - 305

\* date.fromordinal(n)
fromordinal(n) ==
    LET z   == n + 305
        era == z \div 146097
        doe == z - era * 146097
        yoe == (doe - doe \div 1460 + doe \div 36524 - doe \div 146096) \div 365
        doy == doe - (365 * yoe + yoe \div 4 - yoe \div 100)
        mp  == (5 * doy + 2) \div 153
        day == doy - (153 * mp + 2) \div 5 + 1
        m   == IF mp < 10 THEN mp + 3 ELSE mp - 9
        y   == yoe + era * 400
    IN  <<IF m <= 2 THEN y + 1 ELSE y, m, day>>

\* d + timedelta(days=n), n of either sign
AddDays(d, n) == fromordinal(toordinal(d) + n)

\* d + timedelta(days=1)
NextDay(d) == AddDays(d, 1)

\* d - timedelta(days=1)
PrevDay(d) == AddDays(d, 0 - 1)

\* a < b on datetime objects
DateLT(a, b) ==
    \/ a[1] < b[1]
    \/ a[1] = b[1] /\ a[2] < b[2]
    \/ a[1] = b[1] /\ a[2] = b[2] /\ a[3] < b[3]

DateLE(a, b) == a = b \/ DateLT(a, b)

(***************************************************************************)
(* Strings: formatting, parsing and comparison.                            *)
(***************************************************************************)
Digits2(n) == <<48 + (n \div 10), 48 + (n % 10)>>

Digits4(n) ==
    <<48 + (n \div 1000), 48 + ((n \div 100) % 10),
      48 + ((n \div 10) % 10), 48 + (n % 10)>>

\* a day or month number as the user may type it: one digit when below ten
DigitsShort(n) == IF n < 10 THEN <<48 + n>> ELSE Digits2(n)

\* d.strftime("%Y/%m/%d")
strftime(d) == Digits4(d[1]) \o <<47>> \o Digits2(d[2]) \o <<47>> \o Digits2(d[3])

\* d.strftime("%Y%m%d"), the name of a date directory
date_dir_name(d) == Digits4(d[1]) \o Digits2(d[2]) \o Digits2(d[3])

RECURSIVE Num(_)
\* the number a digit string denotes
Num(s) ==
    IF s = <<>> THEN 0
    ELSE 10 * Num(SubSeq(s, 1, Len(s) - 1)) + (s[Len(s)] - 48)

RECURSIVE Split(_)
\* s.split("/")
Split(s) ==
    IF \A i \in 1..Len(s) : s[i] # 47 THEN <<s>>
    ELSE LET k == CHOOSE i \in 1..Len(s) :
                      s[i] = 47 /\ \A j \in 1..(i - 1) : s[j] # 47
         IN  <<SubSeq(s, 1, k - 1)>> \o Split(SubSeq(s, k + 1, Len(s)))

\* datetime.strptime(s, "%Y/%m/%d"): %m and %d accept one or two digits
strptime(s) == LET f == Split(s) IN <<Num(f[1]), Num(f[2]), Num(f[3])>>

RECURSIVE StrLT(_, _)
\* a < b on Python str: lexicographic by code point
StrLT(a, b) ==
    IF b = <<>> THEN FALSE
    ELSE IF a = <<>> THEN TRUE
    ELSE IF a[1] # b[1] THEN a[1] < b[1]
    ELSE StrLT(Tail(a), Tail(b))

\* a > b on Python str
StrGT(a, b) == StrLT(b, a)

\* two spellings of a date that strptime accepts: "2024/03/01" and "2024/3/1"
Spellings(d) ==
    { strftime(d),
      Digits4(d[1]) \o <<47>> \o DigitsShort(d[2]) \o <<47>> \o DigitsShort(d[3]) }

(***************************************************************************)
(* The environment: the clock, the command line and the server.            *)
(***************************************************************************)
\* datetime.datetime.now(), as a calendar date (every comparison of the code
\* is between values that carry the same time of day)
Todays == {<<2024, 3, 1>>}

InputDates(t) == {AddDays(t, k) : k \in (0 - WindowBack)..1}

\* the date strings the user may pass
InputStrings(t) == UNION {Spellings(d) : d \in InputDates(t)}

\* the segment identifiers of one listing: distinct ids, in the server's order
RECURSIVE Ascending(_)
Ascending(S) ==
    IF S = {} THEN <<>>
    ELSE LET m == CHOOSE x \in S : \A y \in S : x <= y
         IN  <<m>> \o Ascending(S \ {m})

Listings == {Ascending(S) : S \in SUBSET (1..MaxIds)}

\* the last path component of response.url: chosen by the server
FileNames == 1..MaxIds

\* name of the combined output, "combined_<feed>_<date>.mp3"; a segment's
\* file name is a positive number
CombinedName == 0

VARIABLES
    today,          \* the clock
    cookieFile,     \* whether cookies.json exists
    opt_date,       \* --date: <<>> when absent, else a string
    opt_range,      \* --range: <<>> when absent, else <<start, end>>
    past_days,      \* --past-days: <<>> when absent, else <<n>>
    combine,        \* --combine
    transcribe,     \* --transcribe
    jobs,           \* --jobs
    pc,             \* position of the main thread
    driver,         \* the function that calls download_archive_by_date
    exit_status,    \* status the process ends with
    loginRequests,  \* POSTs sent to the login page
    dates,          \* the list `dates` of the range and all-archives loops; an
                    \* entry n stands for the string strftime(fromordinal(n))
    di,             \* number of entries of `dates` already processed
    current_date,   \* download_past_n_days: current_date
    start_date,     \* download_past_n_days: start_date
    curDate,        \* argument `date` of download_archive_by_date
    listed,         \* dates of the listing requests sent, in order
    archive_ids,    \* result of get_archive_ids
    futures,        \* the tasks submitted to the executor of this date
    dirs,           \* date directories created
    dirFiles,       \* the files of the date directory being processed
    feedFiles,      \* date directories whose combined file is in the feed directory
    directories_to_transcribe,
    transcribed,    \* calls of transcribe_audio, in order
    res_status,     \* get_archive_ids: the status of the listing response
    tmpFiles,       \* the temporary files that exist, each with its lines
    temp_file_name, \* combine_mp3_files, for the date being processed: <<>>
                    \* before the temporary file is created
    combine_result, \* the message combine_mp3_files has printed for this date
    audio_files,    \* transcribe_audio: mp3_files, the sorted audio files
    ai,             \* transcribe_audio: number of audio files entered
    diarization_segments,
    heard,          \* the segments the recognizer has yielded for this file
    speakers,       \* the value of `speaker` in each iteration, in order
    speaker_map,
    speaker_counter,
    output_json,
    output_txt,
    saved           \* the audio files whose transcripts are written

vars == <<today, cookieFile, opt_date, opt_range, past_days, combine, transcribe,
          jobs, pc, driver, exit_status, loginRequests, dates, di, current_date,
          start_date, curDate, listed, archive_ids, futures, dirs, dirFiles,
          feedFiles, directories_to_transcribe, transcribed, res_status,
          tmpFiles, temp_file_name, combine_result,
          audio_files, ai, diarization_segments, heard, speakers, speaker_map,
          speaker_counter, output_json, output_txt, saved>>

inputs == <<today, opt_date, opt_range, past_days, combine, transcribe, jobs>>

\* the state of combine_mp3_files
combining == <<tmpFiles, temp_file_name, combine_result>>

\* the locals of transcribe_audio
fusion == <<audio_files, ai, diarization_segments, heard, speakers,
            speaker_map, speaker_counter, output_json, output_txt, saved>>

\* transcribe_audio is not running
NotTranscribing ==
    /\ audio_files = <<>>
    /\ ai = 0
    /\ diarization_segments = <<>>
    /\ heard = <<>>
    /\ speakers = <<>>
    /\ speaker_map = [l \in {} |-> <<>>]
    /\ speaker_counter = 0
    /\ output_json = [text |-> <<>>, segments |-> <<>>]
    /\ output_txt = <<>>
    /\ saved = <<>>

Init ==
    /\ today \in Todays
    /\ cookieFile \in BOOLEAN
    /\ combine \in BOOLEAN
    /\ transcribe \in BOOLEAN
    /\ jobs \in 1..MaxJobs
    /\ \/ /\ opt_date \in InputStrings(today)
          /\ opt_range = <<>>
          /\ past_days = <<>>
       \/ /\ opt_date = <<>>
          /\ opt_range \in InputStrings(today) \X InputStrings(today)
          /\ past_days = <<>>
       \/ /\ opt_date = <<>>
          /\ opt_range = <<>>
          /\ past_days \in {<<n>> : n \in (0 - 1)..MaxPastDays}
       \/ /\ opt_date = <<>>
          /\ opt_range = <<>>
          /\ past_days = <<>>
    /\ pc = "login"
    /\ driver = "none"
    /\ exit_status = 0
    /\ loginRequests = 0
    /\ dates = <<>>
    /\ di = 0
    /\ current_date = today
    /\ start_date = today
    /\ curDate = <<>>
    /\ listed = <<>>
    /\ archive_ids = <<>>
    /\ futures = <<>>
    /\ dirs = {}
    /\ dirFiles = <<>>
    /\ feedFiles = {}
    /\ directories_to_transcribe = <<>>
    /\ transcribed = <<>>
    /\ res_status = "none"
    /\ tmpFiles = <<>>
    /\ temp_file_name = <<>>
    /\ combine_result = "none"
    /\ NotTranscribing

(***************************************************************************)
(* download, lines 54-59: get_login_cookie.                                *)
(***************************************************************************)
get_login_cookie ==
    /\ pc = "login"
    /\ \/ /\ cookieFile                      \* cookies.json is read
          /\ pc' = "dispatch"
          /\ UNCHANGED <<cookieFile, loginRequests, exit_status>>
       \/ /\ ~cookieFile                     \* the login request is sent
          /\ loginRequests' = loginRequests + 1
          /\ \/ /\ cookieFile' = TRUE        \* 302 with bcfyuser1: saved
                /\ pc' = "dispatch"
                /\ UNCHANGED exit_status
             \/ /\ pc' = "exit_login"        \* 302 without set-cookie: exit(1)
                /\ exit_status' = 1
                /\ UNCHANGED cookieFile
             \/ /\ pc' = "nologin"           \* None: download returns
                /\ UNCHANGED <<cookieFile, exit_status>>
    /\ UNCHANGED <<inputs, fusion, combining, res_status, driver, dates, di, current_date, start_date, curDate,
                   listed, archive_ids, futures, dirs, dirFiles, feedFiles,
                   directories_to_transcribe, transcribed>>

(***************************************************************************)
(* download, lines 61-75: the choice of the mode.                          *)
(***************************************************************************)
\* the while loop of download_all_archives, lines 119-121: the dates from cur
\* down to start
Descending(cur, start) ==
    [k \in 1..(toordinal(cur) - toordinal(start) + 1) |-> toordinal(cur) + 1 - k]

download ==
    /\ pc = "dispatch"
    /\ IF opt_date # <<>>
       THEN /\ driver' = "date"
            /\ curDate' = opt_date
            /\ pc' = "list"
            /\ UNCHANGED <<dates, current_date, start_date>>
       ELSE IF opt_range # <<>>
       THEN /\ driver' = "range"
            /\ pc' = "range"
            /\ UNCHANGED <<dates, current_date, start_date, curDate>>
       ELSE IF past_days # <<>> /\ past_days[1] # 0
       THEN /\ driver' = "past"
            /\ current_date' = today
            /\ start_date' = AddDays(today, 0 - past_days[1])
            /\ pc' = "past_loop"
            /\ UNCHANGED <<dates, curDate>>
       ELSE /\ driver' = "all"
            /\ dates' = Descending(today, AddDays(today, 0 - AllDays))
            /\ pc' = "next_date"
            /\ UNCHANGED <<current_date, start_date, curDate>>
    /\ UNCHANGED <<inputs, fusion, combining, res_status, cookieFile, exit_status, loginRequests, di,
                   listed, archive_ids, futures, dirs, dirFiles, feedFiles,
                   directories_to_transcribe, transcribed>>

(***************************************************************************)
(* download_archives_by_range, lines 90-108.                               *)
(***************************************************************************)
\* lines 92 and 96: the two tests that end the run with exit(1)
RangeRejected(start, end, now) ==
    \/ StrGT(start, strftime(now)) \/ StrGT(end, strftime(now))
    \/ StrGT(start, end)

\* the while loop of lines 106-108: the dates from start up to end
RangeDates(start, end) ==
    [k \in 1..(toordinal(end) - toordinal(start) + 1) |-> toordinal(start) + k - 1]

download_archives_by_range ==
    /\ pc = "range"
    /\ IF RangeRejected(opt_range[1], opt_range[2], today)
       THEN /\ pc' = "exit_range"
            /\ exit_status' = 1
            /\ UNCHANGED dates
       ELSE /\ dates' = RangeDates(strptime(opt_range[1]), strptime(opt_range[2]))
            /\ pc' = "next_date"
            /\ UNCHANGED exit_status
    /\ UNCHANGED <<inputs, fusion, combining, res_status, cookieFile, driver, loginRequests, di, current_date,
                   start_date, curDate, listed, archive_ids, futures, dirs,
                   dirFiles, feedFiles, directories_to_transcribe, transcribed>>

(***************************************************************************)
(* The loops that call download_archive_by_date.                           *)
(***************************************************************************)
\* `for date in dates`, lines 110-111 and 123-124
next_date ==
    /\ pc = "next_date"
    /\ IF di < Len(dates)
       THEN /\ curDate' = strftime(fromordinal(dates[di + 1]))
            /\ pc' = "list"
       ELSE /\ pc' = "done"
            /\ UNCHANGED curDate
    /\ UNCHANGED <<inputs, fusion, combining, res_status, cookieFile, driver, exit_status, loginRequests, dates,
                   di, current_date, start_date, listed, archive_ids, futures,
                   dirs, dirFiles, feedFiles, directories_to_transcribe,
                   transcribed>>

\* `while current_date >= start_date`, lines 434-449
download_past_n_days ==
    /\ pc = "past_loop"
    /\ IF DateLE(start_date, current_date)
       THEN /\ curDate' = strftime(current_date)
            /\ pc' = "list"
       ELSE /\ pc' = IF transcribe THEN "transcribe" ELSE "done"
            /\ UNCHANGED curDate
    /\ UNCHANGED <<inputs, fusion, combining, res_status, cookieFile, driver, exit_status, loginRequests, dates,
                   di, current_date, start_date, listed, archive_ids, futures,
                   dirs, dirFiles, feedFiles, directories_to_transcribe,
                   transcribed>>

\* download_archive_by_date returns (its locals are gone) and the caller goes
\* on: lines 442-445 in download_past_n_days, lines 64 and 77 for a single
\* date, the next iteration of the for loop elsewhere
ReturnToDriver ==
    /\ archive_ids' = <<>>
    /\ futures' = <<>>
    /\ IF driver = "past"
       THEN /\ directories_to_transcribe' =
                   IF transcribe
                   THEN Append(directories_to_transcribe,
                               date_dir_name(current_date))
                   ELSE directories_to_transcribe
            /\ current_date' = PrevDay(current_date)
            /\ pc' = "past_loop"
            /\ UNCHANGED di
       ELSE IF driver = "date"
       THEN /\ pc' = "done"
            /\ UNCHANGED <<di, current_date, directories_to_transcribe>>
       ELSE /\ di' = di + 1
            /\ pc' = "next_date"
            /\ UNCHANGED <<current_date, directories_to_transcribe>>

(***************************************************************************)
(* download_archive_by_date, lines 127-151, and the fetch workers.         *)
(***************************************************************************)
\* a file written into the date directory
Put(files, name, content) ==
    [n \in DOMAIN files \cup {name} |-> IF n = name THEN content ELSE files[n]]

\* lines 130-140: the listing request, the directories, the executor.  The
\* server chooses the status and the body of the response; the code reads
\* the body alone (lines 194-196).
get_archive_ids ==
    /\ pc = "list"
    /\ Len(listed) < MaxDates
    /\ listed' = Append(listed, curDate)
    /\ res_status' \in {"success", "non-success"}
    /\ combine_result' = "none"
    /\ temp_file_name' = <<>>
    /\ \/ /\ pc' = "crashed"                 \* json.loads or ['data'] raises
          /\ exit_status' = 1
          /\ UNCHANGED <<archive_ids, futures, dirs, dirFiles>>
       \/ /\ archive_ids' \in Listings
          /\ dirs' = dirs \cup {date_dir_name(strptime(curDate))}
          /\ dirFiles' = <<>>
          /\ futures' = <<>>
          /\ pc' = "submit"
          /\ UNCHANGED exit_status
    /\ UNCHANGED <<inputs, fusion, tmpFiles, cookieFile, driver,
                   loginRequests, dates, di, current_date, start_date, curDate,
                   feedFiles, directories_to_transcribe, transcribed>>

\* lines 141-145: executor.submit, one task per id; the response of the
\* listing went with the return of get_archive_ids
submit ==
    /\ pc = "submit"
    /\ res_status' = "none"
    /\ IF Len(futures) < Len(archive_ids)
       THEN /\ futures' = Append(futures,
                  [id |-> archive_ids[Len(futures) + 1],
                   date |-> date_dir_name(strptime(curDate)),
                   st |-> "pending", attempts |-> 0,
                   status |-> "none", name |-> 0])
            /\ UNCHANGED pc
       ELSE /\ pc' = "wait"
            /\ UNCHANGED futures
    /\ UNCHANGED <<inputs, fusion, combining, cookieFile, driver, exit_status,
                   loginRequests, dates, di, current_date, start_date, curDate,
                   listed, archive_ids, dirs, dirFiles, feedFiles,
                   directories_to_transcribe, transcribed>>

\* the fetches whose request is out: tasks a worker thread is running
InFlight == {i \in 1..Len(futures) : futures[i].st = "running"}

WorkerAvailable_Unbounded == TRUE

\* ThreadPoolExecutor(max_workers=jobs), line 139: a task starts only on one
\* of at most `jobs` threads
WorkerAvailable == Cardinality(InFlight) < jobs

\* a worker takes the oldest queued task and sends its request, line 167
FetchStart(i) ==
    /\ futures[i].st = "pending"
    /\ \A j \in 1..(i - 1) : futures[j].st # "pending"
    /\ WorkerAvailable
    /\ futures' = [futures EXCEPT ![i].st = "running",
                                  ![i].attempts = @ + 1]
    /\ UNCHANGED <<inputs, fusion, combining, res_status, cookieFile, pc, driver, exit_status, loginRequests,
                   dates, di, current_date, start_date, curDate, listed,
                   archive_ids, dirs, dirFiles, feedFiles,
                   directories_to_transcribe, transcribed>>

FailFetch_Abort(futs, i) ==
    [j \in 1..Len(futs) |->
        IF j = i \/ futs[j].st = "pending"
        THEN [futs[j] EXCEPT !.st = "done", !.status = "failed"]
        ELSE futs[j]]

\* lines 180-182, a status other than 200: the failure is printed and the
\* task ends; the other tasks are untouched.  (A task that ends with an
\* exception of requests.get ends the same way: nothing reads its result.)
FailFetch(futs, i) ==
    [futs EXCEPT ![i].st = "done", ![i].status = "failed"]

\* the response of the fetch arrives, lines 169-182
FetchFinish(i) ==
    /\ futures[i].st = "running"
    /\ \/ \E name \in FileNames :            \* status 200: the file is written
             /\ futures' = [futures EXCEPT ![i].st = "done", ![i].status = "ok",
                                           ![i].name = name]
             /\ dirFiles' = Put(dirFiles, name, <<futures[i].id>>)
       \/ /\ futures' = FailFetch(futures, i)
          /\ UNCHANGED dirFiles
    /\ UNCHANGED <<inputs, fusion, combining, res_status, cookieFile, pc, driver, exit_status, loginRequests,
                   dates, di, current_date, start_date, curDate, listed,
                   archive_ids, dirs, feedFiles, directories_to_transcribe,
                   transcribed>>

BatchComplete_NoneRunning == InFlight = {}

\* lines 147-148 and the exit of the `with` block: as_completed yields every
\* future, and shutdown(wait=True) joins the workers
BatchComplete == \A i \in 1..Len(futures) : futures[i].st = "done"

\* the barrier, then line 150
barrier ==
    /\ pc = "wait"
    /\ BatchComplete
    /\ IF combine
       THEN /\ pc' = "combine"
            /\ UNCHANGED <<di, current_date, directories_to_transcribe,
                           archive_ids, futures>>
       ELSE ReturnToDriver
    /\ UNCHANGED <<inputs, fusion, combining, res_status, cookieFile, driver,
                   exit_status,
                   loginRequests, dates, start_date, curDate, listed, dirs,
                   dirFiles, feedFiles, transcribed>>

(***************************************************************************)
(* combine_mp3_files, lines 271-322.                                       *)
(***************************************************************************)
\* line 280 without its filter: every *.mp3 file, sorted
mp3_files_All(files) == Ascending(DOMAIN files)

\* line 280: the *.mp3 files whose name does not start with "combined_", sorted
mp3_files(files) == Ascending(DOMAIN files \ {CombinedName})

RECURSIVE Concat(_, _)
\* the encoder's output: the inputs' contents, in the order of the list
Concat(files, names) ==
    IF names = <<>> THEN <<>>
    ELSE files[Head(names)] \o Concat(files, Tail(names))

\* tempfile.NamedTemporaryFile, line 290: a name that no file has
NewTemp(tmp) == CHOOSE n \in 0..Cardinality(DOMAIN tmp) : n \notin DOMAIN tmp

\* lines 271-293: up to the temporary file with the list of the inputs
combine_mp3_files ==
    /\ pc = "combine"
    /\ \/ /\ combine_result' = "ffmpeg_missing"      \* lines 273-275
          /\ ReturnToDriver
          /\ UNCHANGED <<tmpFiles, temp_file_name>>
       \/ /\ mp3_files(dirFiles) = <<>>              \* lines 283-285
          /\ combine_result' = "no_files"
          /\ ReturnToDriver
          /\ UNCHANGED <<tmpFiles, temp_file_name>>
       \/ /\ mp3_files(dirFiles) # <<>>              \* lines 290-293
          /\ temp_file_name' = <<NewTemp(tmpFiles)>>
          /\ tmpFiles' = Put(tmpFiles, NewTemp(tmpFiles), mp3_files(dirFiles))
          /\ pc' = "encode"
          /\ UNCHANGED <<combine_result, di, current_date,
                         directories_to_transcribe, archive_ids, futures>>
    /\ UNCHANGED <<inputs, fusion, res_status, cookieFile, driver, exit_status,
                   loginRequests, dates, start_date, curDate, listed, dirs,
                   dirFiles, feedFiles, transcribed>>

\* the files left when those of the list are taken away
Without(files, names) ==
    [n \in DOMAIN files \ {names[i] : i \in 1..Len(names)} |-> files[n]]

\* lines 308-309 run whether or not the encoder succeeded
remove_inputs_Eager(files, names, ok) == Without(files, names)

\* lines 303-309: os.remove of every input, reached when run() has returned
remove_inputs(files, names, ok) ==
    IF ok THEN Without(files, names) ELSE files

\* line 322 left out
unlink_Skipped(tmp, name) == tmp

\* os.unlink, line 322
unlink(tmp, name) == [n \in DOMAIN tmp \ {name} |-> tmp[n]]

\* lines 295-322: the encoder's run, the removal of the inputs, the copy to
\* the feed directory, the end of the temporary file.  A run that fails may
\* have begun to write the output file.
run_ffmpeg ==
    /\ pc = "encode"
    /\ LET list == tmpFiles[temp_file_name[1]]
       IN  \/ /\ dirFiles' =
                    remove_inputs(Put(dirFiles, CombinedName,
                                      Concat(dirFiles, list)), list, TRUE)
              /\ feedFiles' =
                    feedFiles \cup {date_dir_name(strptime(curDate))}
              /\ combine_result' = "combined"
           \/ /\ dirFiles' \in
                    {remove_inputs(dirFiles, list, FALSE),
                     remove_inputs(Put(dirFiles, CombinedName, <<>>), list,
                                   FALSE)}
              /\ combine_result' = "ffmpeg_error"
              /\ UNCHANGED feedFiles
    /\ tmpFiles' = unlink(tmpFiles, temp_file_name[1])
    /\ ReturnToDriver
    /\ UNCHANGED <<inputs, fusion, res_status, temp_file_name, cookieFile,
                   driver, exit_status, loginRequests, dates, start_date, curDate,
                   listed, dirs, transcribed>>

(***************************************************************************)
(* download_past_n_days, lines 449-452: the deferred transcription.        *)
(***************************************************************************)
transcribe_audio ==
    /\ pc = "transcribe"
    /\ IF Len(transcribed) < Len(directories_to_transcribe)
       THEN /\ transcribed' =
                   Append(transcribed,
                          directories_to_transcribe[Len(transcribed) + 1])
            /\ UNCHANGED pc
       ELSE /\ pc' = "done"
            /\ UNCHANGED transcribed
    /\ UNCHANGED <<inputs, fusion, combining, res_status, cookieFile, driver, exit_status, loginRequests, dates,
                   di, current_date, start_date, curDate, listed, archive_ids,
                   futures, dirs, dirFiles, feedFiles,
                   directories_to_transcribe>>

Next ==
    \/ get_login_cookie
    \/ download
    \/ download_archives_by_range
    \/ next_date
    \/ download_past_n_days
    \/ get_archive_ids
    \/ submit
    \/ \E i \in 1..Len(futures) : FetchStart(i)
    \/ \E i \in 1..Len(futures) : FetchFinish(i)
    \/ barrier
    \/ combine_mp3_files
    \/ run_ffmpeg
    \/ transcribe_audio

Spec == Init /\ [][Next]_vars

(***************************************************************************)
(* combine_mp3_files alone, lines 271-322, called for a date directory     *)
(* that may hold files of an earlier run.                                  *)
(***************************************************************************)
\* the directories combine_mp3_files may find: a segment file holds what one
\* fetch wrote, a combined file what an earlier run merged
Directories ==
    UNION {{f \in [S -> {<<i>> : i \in 1..MaxIds} \cup (Listings \ {<<>>})] :
               \A n \in S : n # CombinedName => Len(f[n]) = 1} :
           S \in SUBSET (0..MaxIds)}

\* lines 150-151: the call, for --date today
InitCombine ==
    /\ today \in Todays
    /\ cookieFile = TRUE
    /\ opt_date = strftime(today)
    /\ opt_range = <<>>
    /\ past_days = <<>>
    /\ combine = TRUE
    /\ transcribe = FALSE
    /\ jobs = 1
    /\ pc = "combine"
    /\ driver = "date"
    /\ exit_status = 0
    /\ loginRequests = 0
    /\ dates = <<>>
    /\ di = 0
    /\ current_date = today
    /\ start_date = today
    /\ curDate = strftime(today)
    /\ listed = <<strftime(today)>>
    /\ archive_ids = <<>>
    /\ futures = <<>>
    /\ dirs = {date_dir_name(today)}
    /\ dirFiles \in Directories
    /\ feedFiles \in SUBSET {date_dir_name(today)}
    /\ directories_to_transcribe = <<>>
    /\ transcribed = <<>>
    /\ res_status = "none"
    \* the temporary directory may hold a file of another program
    /\ tmpFiles \in {<<>>, [n \in {0} |-> <<>>]}
    /\ temp_file_name = <<>>
    /\ combine_result = "none"
    /\ NotTranscribing

NextCombine ==
    \/ combine_mp3_files
    \/ run_ffmpeg

SpecCombine == InitCombine /\ [][NextCombine]_vars

(***************************************************************************)
(* transcribe_audio, lines 325-424: the fusion of the recognizer's         *)
(* segments with the diarization segments of each audio file.              *)
(*                                                                         *)
(* Instants are counted in half seconds.  A text is a sequence of tokens:  *)
(* "\n", the pieces of a speaker identifier, the pieces of a timestamp and *)
(* the words of the recognizer.  `seek` is copied from the segment like    *)
(* `start` and `end` and is left out.                                      *)
(***************************************************************************)
\* segments the recognizer yields for one audio file, at most
MaxSegs == 2
\* segments of one diarization, at most
MaxDia == 2

\* four instants give every order of the four endpoints of two segments
Times == 0..3

\* the labels of the diarization pipeline
Labels == {"A", "B"}

\* the texts of the recognizer
Texts == {<<"a">>, <<"b">>}

\* the segments whisper_model.transcribe may yield
TranscriptionSegments ==
    {t \in [start : Times, end : Times, text : Texts] : t.start <= t.end}

\* the segments of a diarization: never empty
DiaSegments ==
    {d \in [start : Times, end : Times, label : Labels] : d.start < d.end}

\* order of the timeline: by start, then by end
Before(d, e) == d.start < e.start \/ (d.start = e.start /\ d.end < e.end)

\* list(diarization.itersegments()), line 373: the segments of the timeline,
\* in its order
Diarizations ==
    UNION {{s \in [1..n -> DiaSegments] :
               \A i \in 1..(n - 1) : Before(s[i], s[i + 1])} : n \in 0..MaxDia}

\* line 390
SPEAKER_UNK == "SPEAKER_UNK"

\* speaker_map = {}, line 374
EmptyMap == [l \in {} |-> <<>>]

DigitTok(n) == <<"0", "1", "2", "3", "4", "5", "6", "7", "8", "9">>[n + 1]

\* format spec 02d
Dec2(n) == <<DigitTok((n \div 10) % 10), DigitTok(n % 10)>>

\* f"SPEAKER_{speaker_counter:02d}", line 394
SpeakerId(n) == <<"SPEAKER_">> \o Dec2(n)

\* str(datetime.timedelta(seconds=n)), line 400, for less than ten hours
timedelta_str(n) ==
    <<DigitTok(n \div 3600), ":">> \o Dec2((n \div 60) % 60) \o <<":">> \o
    Dec2(n % 60)

\* str.endswith
endswith(s, suffix) ==
    /\ Len(suffix) <= Len(s)
    /\ SubSeq(s, Len(s) - Len(suffix) + 1, Len(s)) = suffix

\* the condition of lines 381-383, with the bounds of the first line closed
Overlaps_Closed(segment, dia_segment) ==
    \/ segment.start >= dia_segment.start /\ segment.start <= dia_segment.end
    \/ segment.end > dia_segment.start /\ segment.end <= dia_segment.end
    \/ segment.start <= dia_segment.start /\ segment.end >= dia_segment.end

\* the condition of lines 381-383
Overlaps(segment, dia_segment) ==
    \/ segment.start >= dia_segment.start /\ segment.start < dia_segment.end
    \/ segment.end > dia_segment.start /\ segment.end <= dia_segment.end
    \/ segment.start <= dia_segment.start /\ segment.end >= dia_segment.end

\* the scan of lines 379-385 without its `break`: the last match stays
find_overlap_Last(segment, dias) ==
    LET M == {i \in 1..Len(dias) : Overlaps(segment, dias[i])}
    IN  IF M = {} THEN 0 ELSE CHOOSE i \in M : \A j \in M : j <= i

\* lines 379-385: the position of `overlap` in the list, 0 for None
find_overlap(segment, dias) ==
    LET M == {i \in 1..Len(dias) : Overlaps(segment, dias[i])}
    IN  IF M = {} THEN 0 ELSE CHOOSE i \in M : \A j \in M : i <= j

\* lines 387-390
speaker_of(segment, dias) ==
    IF find_overlap(segment, dias) # 0
    THEN dias[find_overlap(segment, dias)].label
    ELSE SPEAKER_UNK

\* lines 393-395 without the increment
assign_speaker_NoIncrement(map, counter, speaker) ==
    IF speaker \notin DOMAIN map
    THEN <<[l \in DOMAIN map \cup {speaker} |->
               IF l = speaker THEN SpeakerId(counter) ELSE map[l]],
           counter>>
    ELSE <<map, counter>>

\* lines 393-395 with the test left out
assign_speaker_AlwaysNew(map, counter, speaker) ==
    <<[l \in DOMAIN map \cup {speaker} |->
          IF l = speaker THEN SpeakerId(counter) ELSE map[l]],
      counter + 1>>

\* lines 393-395: speaker_map and speaker_counter afterwards
assign_speaker(map, counter, speaker) ==
    IF speaker \notin DOMAIN map
    THEN <<[l \in DOMAIN map \cup {speaker} |->
               IF l = speaker THEN SpeakerId(counter) ELSE map[l]],
           counter + 1>>
    ELSE <<map, counter>>

\* lines 405-411 with insert(0, ...) for append
append_entry_Front(json, segment, speaker_id) ==
    [text |-> json.text \o segment.text \o <<" ">>,
     segments |-> <<[text |-> segment.text, start |-> segment.start,
                     end |-> segment.end, speaker |-> speaker_id]>> \o
                  json.segments]

\* lines 404-411
append_entry(json, segment, speaker_id) ==
    [text |-> json.text \o segment.text \o <<" ">>,
     segments |-> Append(json.segments,
                         [text |-> segment.text, start |-> segment.start,
                          end |-> segment.end, speaker |-> speaker_id])]

\* lines 400-401 and 414-416
append_txt(txt, segment, speaker_id) ==
    (IF ~endswith(txt, speaker_id \o <<"\n">>)
     THEN txt \o speaker_id \o <<"\n">>
     ELSE txt) \o
    <<"[">> \o timedelta_str(segment.start \div 2) \o <<"]", " - ">> \o
    segment.text \o <<"\n">>

\* lines 325-329: the call
InitFuse ==
    /\ today \in Todays
    /\ cookieFile = TRUE
    /\ opt_date = <<>>
    /\ opt_range = <<>>
    /\ past_days = <<1>>
    /\ combine \in BOOLEAN
    /\ transcribe = TRUE
    /\ jobs = 1
    /\ pc = "audio_file"
    /\ driver = "past"
    /\ exit_status = 0
    /\ loginRequests = 0
    /\ dates = <<>>
    /\ di = 0
    /\ current_date = today
    /\ start_date = today
    /\ curDate = <<>>
    /\ listed = <<>>
    /\ archive_ids = <<>>
    /\ futures = <<>>
    /\ dirs = {}
    /\ dirFiles = <<>>
    /\ feedFiles = {}
    /\ directories_to_transcribe = <<>>
    /\ transcribed = <<>>
    /\ res_status = "none"
    /\ tmpFiles = <<>>
    /\ temp_file_name = <<>>
    /\ combine_result = "none"
    \* line 329: the combined file, or one file per segment
    /\ audio_files = IF combine THEN <<CombinedName>> ELSE Ascending(1..MaxIds)
    /\ ai = 0
    /\ diarization_segments = <<>>
    /\ heard = <<>>
    /\ speakers = <<>>
    /\ speaker_map = EmptyMap
    /\ speaker_counter = 0
    /\ output_json = [text |-> <<>>, segments |-> <<>>]
    /\ output_txt = <<>>
    /\ saved = <<>>

download_state == <<cookieFile, driver, exit_status, loginRequests, dates, di,
                    current_date, start_date, curDate, listed, archive_ids,
                    futures, dirs, dirFiles, feedFiles,
                    directories_to_transcribe, transcribed, res_status,
                    tmpFiles, temp_file_name, combine_result>>

\* lines 343-375: the next audio file, or the end of the loop
next_audio_file ==
    /\ pc = "audio_file"
    /\ IF ai < Len(audio_files)
       THEN /\ ai' = ai + 1
            /\ diarization_segments' \in Diarizations
            /\ heard' = <<>>
            /\ speakers' = <<>>
            /\ output_json' = [text |-> <<>>, segments |-> <<>>]
            /\ output_txt' = <<>>
            /\ speaker_map' = EmptyMap
            /\ speaker_counter' = 0
            /\ pc' = "segment"
       ELSE /\ pc' = "transcribed"
            /\ UNCHANGED <<ai, diarization_segments, heard, speakers,
                           output_json, output_txt, speaker_map,
                           speaker_counter>>
    /\ UNCHANGED <<inputs, download_state, audio_files, saved>>

\* lines 377-416: one iteration, for the segment the recognizer yields next
fuse_segment ==
    /\ pc = "segment"
    /\ Len(heard) < MaxSegs
    /\ \E segment \in TranscriptionSegments :
         /\ heard # <<>> => heard[Len(heard)].start <= segment.start
         /\ LET speaker == speaker_of(segment, diarization_segments)
                assigned == assign_speaker(speaker_map, speaker_counter,
                                           speaker)
                speaker_id == assigned[1][speaker]
            IN  /\ heard' = Append(heard, segment)
                /\ speakers' = Append(speakers, speaker)
                /\ speaker_map' = assigned[1]
                /\ speaker_counter' = assigned[2]
                /\ output_json' = append_entry(output_json, segment,
                                               speaker_id)
                /\ output_txt' = append_txt(output_txt, segment, speaker_id)
    /\ UNCHANGED <<inputs, download_state, pc, audio_files, ai,
                   diarization_segments, saved>>

\* lines 418-424: the recognizer is exhausted, the transcripts are written.
\* The outputs go to the files and leave the state; the next iteration
\* assigns the locals it reads, so speaker_map and speaker_counter alone
\* are followed across the iterations.
save_transcripts ==
    /\ pc = "segment"
    /\ saved' = Append(saved, audio_files[ai])
    /\ diarization_segments' = <<>>
    /\ heard' = <<>>
    /\ speakers' = <<>>
    /\ output_json' = [text |-> <<>>, segments |-> <<>>]
    /\ output_txt' = <<>>
    /\ pc' = "audio_file"
    /\ UNCHANGED <<inputs, download_state, audio_files, ai, speaker_map,
                   speaker_counter>>

NextFuse ==
    \/ next_audio_file
    \/ fuse_segment
    \/ save_transcripts

SpecFuse == InitFuse /\ [][NextFuse]_vars

(***************************************************************************)
(* Properties.                                                             *)
(***************************************************************************)
\* the date directory of the i-th listing request
ListedDir(i) == date_dir_name(strptime(listed[i]))

\* every task of the batch has ended
AllDone == \A i \in 1..Len(futures) : futures[i].st = "done"

\* the batch of the current date is over: the main thread is at the barrier
\* with nothing left to wait for, or past it
BatchOver == pc = "combine" \/ (pc = "wait" /\ AllDone)

\* s is an initial segment of t
IsPrefix(s, t) == Len(s) <= Len(t) /\ \A i \in 1..Len(s) : s[i] = t[i]

\* C1: in every input mode, when transcription is requested, no transcription
\* starts before the downloads of all dates have completed, and the run then
\* transcribes each date directory exactly once, in download order.
C1_TranscriptionDeferredEveryMode ==
    (transcribe /\ (opt_date # <<>> \/ opt_range # <<>> \/ past_days # <<>>))
    => /\ transcribed # <<>> => pc \in {"transcribe", "done"}
       /\ pc = "done" =>
              transcribed = [i \in 1..Len(listed) |-> ListedDir(i)]

\* C2: concatenation for a date never starts while a fetch submitted for that
\* date is pending or running: when combine_mp3_files is about to run, every
\* identifier of the listing has been submitted and every task has ended.
C2_FetchesFinishBeforeCombine ==
    pc = "combine" =>
        /\ Len(futures) = Len(archive_ids)
        /\ \A i \in 1..Len(futures) : futures[i].st = "done"

\* C2, its case: concatenation is about to start after a batch of at least two
\* fetches, of which one failed and one succeeded
C2_Witness ==
    /\ pc = "combine"
    /\ Len(futures) >= 2
    /\ \E i, j \in 1..Len(futures) :
          futures[i].status = "failed" /\ futures[j].status = "ok"

\* C3, the state part: a task is for the identifier at its place in the
\* listing and its request is sent at most once; when the batch is over every
\* identifier has had exactly one request.
C3_OneAttemptEach ==
    /\ Len(futures) <= Len(archive_ids)
    /\ \A i \in 1..Len(futures) :
          futures[i].id = archive_ids[i] /\ futures[i].attempts <= 1
    /\ BatchOver =>
          /\ Len(futures) = Len(archive_ids)
          /\ \A i \in 1..Len(futures) : futures[i].attempts = 1

\* C3, the step part: the step in which a fetch fails changes no other task
C3_FailureLeavesSiblings ==
    \A i \in 1..Len(futures) :
        (futures[i].st = "running" /\ Len(futures') >= i
            /\ futures'[i].status = "failed")
        => /\ Len(futures') = Len(futures)
           /\ \A j \in 1..Len(futures) : j # i => futures'[j] = futures[j]

\* C3: for a date with N enumerated identifiers exactly N fetch attempts are
\* made, one per identifier, none retried and none skipped, and a fetch that
\* fails does not abort the batch nor change any sibling fetch.
C3_ExactlyNAttempts == [](C3_OneAttemptEach) /\ [][C3_FailureLeavesSiblings]_vars

\* C3, its case: a batch is over in which the first fetch failed and a later
\* one was attempted and succeeded
C3_Witness ==
    /\ BatchOver
    /\ Len(futures) >= 2
    /\ futures[1].status = "failed"
    /\ futures[2].status = "ok"
    /\ futures[2].attempts = 1

\* C4: all fetches in flight belong to the batch of the one date being
\* processed, no fetch is in flight outside the fetch phase of a date (so the
\* next date's batch starts after the previous batch and its concatenation),
\* and never more than `jobs` fetches are in flight.
C4_OneBatchBoundedConcurrency ==
    /\ Cardinality(InFlight) <= jobs
    /\ InFlight # {} => pc \in {"submit", "wait"}
    /\ \A i \in InFlight : futures[i].date = date_dir_name(strptime(curDate))

\* C4, its case: in the second date of a run, as many fetches as `jobs`
\* allows are in flight at once, and more than one
C4_Witness ==
    /\ Len(listed) >= 2
    /\ jobs >= 2
    /\ Cardinality(InFlight) = jobs

\* C5: within one batch no two fetches write the same file, and so the files
\* of the date directory after the barrier are those of the successful
\* fetches, each with the bytes of its own fetch, whatever the order in which
\* the workers finished.
C5_DistinctFilesAnyOrder ==
    /\ \A i, j \in 1..Len(futures) :
          (i # j /\ futures[i].status = "ok" /\ futures[j].status = "ok")
          => futures[i].name # futures[j].name
    /\ (pc = "wait" /\ AllDone) =>
          /\ \A i \in 1..Len(futures) :
                futures[i].status = "ok" =>
                    /\ futures[i].name \in DOMAIN dirFiles
                    /\ dirFiles[futures[i].name] = <<futures[i].id>>
          /\ \A n \in DOMAIN dirFiles :
                \E i \in 1..Len(futures) :
                    futures[i].status = "ok" /\ futures[i].name = n

\* start later than end, or one of them later than today, as calendar dates
InvalidRange(start, end, now) ==
    \/ DateLT(end, start)
    \/ DateLT(now, start)
    \/ DateLT(now, end)

\* C6: in explicit-range mode the run fails with the invalid-range error (exit
\* status 1) if and only if start is later than end as calendar dates or one
\* of them is later than today.
C6_RejectedIffInvalid ==
    (driver = "range" /\ pc # "range") =>
        ((pc = "exit_range" /\ exit_status = 1)
         <=> InvalidRange(strptime(opt_range[1]), strptime(opt_range[2]), today))

\* C7: when the explicit range is invalid no login request, no listing request
\* and no fetch is issued and no directory or file is created, at any point of
\* the run.
C7_InvalidRangeNoActivity ==
    (opt_range # <<>>
        /\ InvalidRange(strptime(opt_range[1]), strptime(opt_range[2]), today))
    => /\ loginRequests = 0
       /\ listed = <<>>
       /\ futures = <<>>
       /\ dirs = {}
       /\ DOMAIN dirFiles = {}

\* C8: in every input mode no listing request and no fetch is issued for a
\* calendar date later than today.
C8_NoRequestForFutureDate ==
    /\ \A i \in 1..Len(listed) : DateLE(strptime(listed[i]), today)
    /\ \A i \in 1..Len(futures) :
          futures[i].attempts > 0 => DateLE(strptime(curDate), today)

\* every calendar date from start to end, ascending
CalendarRange(start, end) ==
    [k \in 1..(toordinal(end) - toordinal(start) + 1) |->
        strftime(fromordinal(toordinal(start) + k - 1))]

\* C9: for every valid explicit range (start <= end <= today) the dates
\* processed are exactly the calendar dates from start to end, ascending, each
\* once: the dates processed so far are always an initial segment of that
\* sequence, and all of it when the run has ended.
C9_RangeProcessedExactly ==
    (opt_range # <<>>
        /\ ~InvalidRange(strptime(opt_range[1]), strptime(opt_range[2]), today))
    => LET want == CalendarRange(strptime(opt_range[1]), strptime(opt_range[2]))
       IN  /\ IsPrefix(listed, want)
           /\ pc \in {"done", "exit_range"} => listed = want

\* the N + 1 dates ending at today, today first
TrailingDates(now, n) == [k \in 1..(n + 1) |-> strftime(AddDays(now, 1 - k))]

\* C10: for every trailing-N request with N >= 0 the dates processed are
\* exactly the N + 1 consecutive dates ending at today, today first.
C10_TrailingProcessedExactly ==
    (past_days # <<>> /\ past_days[1] >= 0)
    => /\ IsPrefix(listed, TrailingDates(today, past_days[1]))
       /\ pc = "done" => listed = TrailingDates(today, past_days[1])

(***************************************************************************)
(* The fusion of transcribe_audio, under SpecFuse.                         *)
(***************************************************************************)
\* an audio file is being fused
Fusing == pc = "segment"

\* the three conditions, as the claims word them
Matches(t, d) ==
    \/ d.start <= t.start /\ t.start < d.end
    \/ d.start < t.end /\ t.end <= d.end
    \/ t.start <= d.start /\ d.end <= t.end

\* the positions of the diarization segments that match t
Matching(t) ==
    {j \in 1..Len(diarization_segments) : Matches(t, diarization_segments[j])}

Least(S) == CHOOSE i \in S : \A j \in S : i <= j

\* C11: each transcription segment takes the label of the first diarization
\* segment, in list order, that satisfies one of the three conditions, and
\* the sentinel exactly when none does
C11_FirstMatchWins ==
    /\ Len(speakers) = Len(heard)
    /\ \A i \in 1..Len(heard) :
         /\ Matching(heard[i]) # {} =>
              speakers[i] = diarization_segments[Least(Matching(heard[i]))].label
         /\ speakers[i] = SPEAKER_UNK <=> Matching(heard[i]) = {}

\* a segment matched by two diarization segments of different labels has
\* taken the label of the earlier one
C11_Witness ==
    \E i \in 1..Len(heard) :
      \E j \in Matching(heard[i]), k \in Matching(heard[i]) :
         /\ j < k
         /\ diarization_segments[j].label # diarization_segments[k].label
         /\ speakers[i] = diarization_segments[j].label
         /\ heard[i].start >= diarization_segments[k].start
         /\ heard[i].end <= diarization_segments[k].end

\* C12: after k transcription segments the output holds k entries, entry i
\* with the start, end and text of segment i and the one identifier of its
\* speaker; with no segment yet the outputs are empty
C12_OneEntryPerSegment ==
    /\ Len(output_json.segments) = Len(heard)
    /\ \A i \in 1..Len(heard) :
         /\ output_json.segments[i].start = heard[i].start
         /\ output_json.segments[i].end = heard[i].end
         /\ output_json.segments[i].text = heard[i].text
         /\ speakers[i] \in DOMAIN speaker_map
         /\ output_json.segments[i].speaker = speaker_map[speakers[i]]
    /\ heard = <<>> => output_json.text = <<>> /\ output_txt = <<>>

\* two different segments, the first matched and the second not, are both in
\* the output
C12_Witness ==
    /\ Len(heard) = 2
    /\ heard[1] # heard[2]
    /\ heard[1].text # heard[2].text
    /\ diarization_segments # <<>>
    /\ speakers[1] # SPEAKER_UNK
    /\ speakers[2] = SPEAKER_UNK
    /\ Len(output_json.segments) = 2

\* the labels of `speakers` in the order of their first appearance
RECURSIVE FirstSeen(_)
FirstSeen(s) ==
    IF s = <<>> THEN <<>>
    ELSE LET r == FirstSeen(SubSeq(s, 1, Len(s) - 1))
         IN  IF \E i \in 1..Len(r) : r[i] = s[Len(s)]
             THEN r
             ELSE Append(r, s[Len(s)])

\* C13: within one audio file the mapping is injective, the k labels seen so
\* far have the identifiers SPEAKER_00 .. SPEAKER_(k-1) in the order of their
\* first appearance, and the mapping holds the labels of this file alone
C13_SequentialIdentifiers ==
    Fusing =>
      LET seen == FirstSeen(speakers)
      IN  /\ DOMAIN speaker_map = {seen[n] : n \in 1..Len(seen)}
          /\ speaker_counter = Len(seen)
          /\ \A n \in 1..Len(seen) : speaker_map[seen[n]] = SpeakerId(n - 1)
          /\ \A a \in DOMAIN speaker_map, b \in DOMAIN speaker_map :
               speaker_map[a] = speaker_map[b] => a = b

\* in the second audio file the first label seen is numbered from zero and
\* the sentinel, seen next, takes the number after it
C13_Witness ==
    /\ Fusing
    /\ ai = 2
    /\ Len(speakers) = 2
    /\ speakers[1] = "B"
    /\ speakers[2] = SPEAKER_UNK
    /\ speaker_map["B"] = SpeakerId(0)
    /\ speaker_map[SPEAKER_UNK] = SpeakerId(1)

\* the sentinel as a text
SentinelText == <<"SPEAKER_", "UNK">>

\* C14, as stated: with an empty diarization every entry of the output is
\* labeled SPEAKER_UNK
C14_EntriesCarrySentinel ==
    (Fusing /\ diarization_segments = <<>>) =>
      /\ Len(output_json.segments) = Len(heard)
      /\ \A i \in 1..Len(output_json.segments) :
           output_json.segments[i].speaker = SentinelText

\* C14, amended: with an empty diarization there is one entry per segment,
\* the label of every segment is the sentinel, and every entry carries the
\* identifier the mapping gives the sentinel, SPEAKER_00
C14_EntriesCarrySentinelIdentifier ==
    (Fusing /\ diarization_segments = <<>>) =>
      /\ Len(output_json.segments) = Len(heard)
      /\ \A i \in 1..Len(heard) :
           /\ speakers[i] = SPEAKER_UNK
           /\ output_json.segments[i].speaker = SpeakerId(0)

C14_Witness ==
    /\ Fusing
    /\ diarization_segments = <<>>
    /\ Len(heard) = MaxSegs
    /\ Len(output_json.segments) = MaxSegs

\* the lines of a text, each without its "\n"
RECURSIVE Lines(_)
Lines(txt) ==
    IF txt = <<>> THEN <<>>
    ELSE LET n == CHOOSE i \in 1..Len(txt) :
                    txt[i] = "\n" /\ \A j \in 1..(i - 1) : txt[j] # "\n"
         IN  <<SubSeq(txt, 1, n - 1)>> \o Lines(SubSeq(txt, n + 1, Len(txt)))

IsEntryLine(line) == line # <<>> /\ line[1] = "["

\* the position, among the lines, of the line of entry i
EntryLine(lines, i) ==
    CHOOSE n \in 1..Len(lines) :
      /\ IsEntryLine(lines[n])
      /\ Cardinality({m \in 1..n : IsEntryLine(lines[m])}) = i

\* a header line stands right before the line of entry i
HeaderBefore(lines, i) ==
    /\ EntryLine(lines, i) > 1
    /\ ~IsEntryLine(lines[EntryLine(lines, i) - 1])

\* C15: in the text transcript a header line precedes the line of entry i
\* exactly when i is the first entry or its identifier differs from that of
\* entry i-1
C15_HeaderOnlyOnSpeakerChange ==
    \A i \in 1..Len(output_json.segments) :
      HeaderBefore(Lines(output_txt), i) <=>
        \/ i = 1
        \/ output_json.segments[i].speaker #
             output_json.segments[i - 1].speaker

\* the two segments share an interval of positive length
PositiveOverlap(t, d) ==
    (IF t.start >= d.start THEN t.start ELSE d.start) <
    (IF t.end <= d.end THEN t.end ELSE d.end)

Touches(t, d) == t.end = d.start \/ t.start = d.end

\* C20: a transcription segment with start < end has the sentinel label
\* exactly when it shares no interval of positive length with a diarization
\* segment, and a diarization segment it only touches does not match it
C20_ConditionsDetectOverlap ==
    \A i \in 1..Len(heard) :
      heard[i].start < heard[i].end =>
        /\ speakers[i] = SPEAKER_UNK <=>
             \A j \in 1..Len(diarization_segments) :
                ~PositiveOverlap(heard[i], diarization_segments[j])
        /\ \A j \in 1..Len(diarization_segments) :
             Touches(heard[i], diarization_segments[j]) =>
               ~Overlaps(heard[i], diarization_segments[j])

\* a segment that only touches the diarization segment has the sentinel, and
\* the next one, which encloses it on both sides, has its label
C20_Witness ==
    /\ Len(heard) = 2
    /\ Len(diarization_segments) = 1
    /\ heard[1].start < heard[1].end
    /\ heard[1].end = diarization_segments[1].start
    /\ speakers[1] = SPEAKER_UNK
    /\ heard[2].start < diarization_segments[1].start
    /\ diarization_segments[1].end < heard[2].end
    /\ speakers[2] = diarization_segments[1].label

(***************************************************************************)
(* combine_mp3_files, under SpecCombine, and the listing, under Spec.      *)
(***************************************************************************)
\* the audio files of the date directory that are not a combined output
Originals == DOMAIN dirFiles \ {CombinedName}

\* combine_mp3_files is called
CombineCalled == pc = "combine"

\* combine_mp3_files has returned
CombineReturned == pc = "done"

C17_TempFileGone ==
    CombineReturned =>
      \/ temp_file_name = <<>>
      \/ temp_file_name[1] \notin DOMAIN tmpFiles

\* the encoder has failed, the temporary file of the call is gone and that
\* of the other program is still there
C17_Witness ==
    /\ CombineReturned
    /\ combine_result = "ffmpeg_error"
    /\ temp_file_name = <<1>>
    /\ DOMAIN tmpFiles = {0}

\* the listing response is a failure: not a success, or with a body that is
\* not a listing
ListingFailed == res_status' = "non-success" \/ pc' = "crashed"

RECURSIVE Count(_, _)
Count(s, x) ==
    IF s = <<>> THEN 0
    ELSE (IF Head(s) = x THEN 1 ELSE 0) + Count(Tail(s), x)

\* C18: a listing request that fails ends download_archive_by_date with the
\* error: one request was sent for the date, no task is submitted and no
\* fetch starts
C18_ListingFailureStartsNoFetch ==
    [][(pc = "list" /\ ListingFailed) =>
         /\ pc' = "crashed"
         /\ Count(listed', curDate) = 1
         /\ futures' = <<>>
         /\ archive_ids' = <<>>]_vars

\* C19: the inputs are deleted only when the encoder has succeeded: up to
\* the run of the encoder, and through a run that fails, every input stays
\* as it is and nothing is copied to the feed directory; after a run that
\* succeeds no input is left and the merged file is in the date directory
\* and in the feed directory
C19_InputsDeletedOnlyOnSuccess ==
    [][(pc \in {"combine", "encode"}) =>
         IF combine_result' = "combined"
         THEN /\ DOMAIN dirFiles' = {CombinedName}
              /\ dirFiles'[CombinedName] =
                   Concat(dirFiles, Ascending(Originals))
              /\ date_dir_name(strptime(curDate)) \in feedFiles'
         ELSE /\ \A n \in Originals :
                   n \in DOMAIN dirFiles' /\ dirFiles'[n] = dirFiles[n]
              /\ feedFiles' = feedFiles]_vars

\* the encoder has failed: both inputs are there and the feed directory has
\* no combined file
C19_Witness ==
    /\ CombineReturned
    /\ combine_result = "ffmpeg_error"
    /\ Cardinality(Originals) = 2
    /\ feedFiles = {}

====
